---------------------------- MODULE Spec2Model ----------------------------
(***************************************************************************)
(* A model of ThoughtfulAIAgent (src/app.py): loading the knowledge file,  *)
(* initialising the generation client, the similarity scorer, the two      *)
(* retrieval operations and get_response with its fallbacks.               *)
(*                                                                         *)
(* Strings are sequences of one-character strings; None is the tuple       *)
(* <<"None">>, which is no string of the model.  Scores are exact          *)
(* rationals <<numerator, denominator>> in lowest terms.                   *)
(***************************************************************************)
EXTENDS Integers, Sequences, FiniteSets, TLC

VARIABLES data_file, qa_data, openai_client,
          pc, query, context, result, calls, match_threshold, match

vars == <<data_file, qa_data, openai_client,
          pc, query, context, result, calls, match_threshold, match>>

---------------------------------------------------------------------------
(* Values *)

None == <<"None">>

\* Python truthiness of an optional string: None and '' are falsy.
Truthy(x) == x # None /\ x # <<>>

---------------------------------------------------------------------------
(* Rationals *)

RECURSIVE Gcd(_, _)
Gcd(m, n) == IF n = 0 THEN m ELSE Gcd(n, m % n)

Rat(n, d) == LET g == Gcd(n, d) IN <<n \div g, d \div g>>

RatAdd(x, y) == Rat(x[1] * y[2] + y[1] * x[2], x[2] * y[2])

RatLess(x, y) == x[1] * y[2] < y[1] * x[2]

RatLeq(x, y) == x[1] * y[2] <= y[1] * x[2]

RatMin(x, y) == IF RatLess(y, x) THEN y ELSE x

Zero == <<0, 1>>

One == <<1, 1>>

Half == <<1, 2>>

---------------------------------------------------------------------------
(* str.lower, str.strip, the `in` operator on strings *)

LowerChar(c) ==
    CASE c = "E" -> "e"
      [] c = "V" -> "v"
      [] c = "A" -> "a"
      [] c = "C" -> "c"
      [] c = "M" -> "m"
      [] OTHER -> c

Lower(s) == [i \in 1..Len(s) |-> LowerChar(s[i])]

IsSpace(c) == c \in {" ", "\t", "\n"}

Strip(s) ==
    LET keep == {i \in 1..Len(s) : ~IsSpace(s[i])}
    IN  IF keep = {} THEN <<>>
        ELSE LET lo == CHOOSE i \in keep : \A j \in keep : i <= j
                 hi == CHOOSE i \in keep : \A j \in keep : j <= i
             IN  SubSeq(s, lo, hi)

Contains(s, sub) ==
    \E i \in 1..(Len(s) - Len(sub) + 1) : SubSeq(s, i, i + Len(sub) - 1) = sub

---------------------------------------------------------------------------
(* difflib.SequenceMatcher(None, a, b).ratio(), as _calculate_similarity   *)
(* uses it.  No junk predicate is given, and the automatic junk heuristic  *)
(* applies only to a second sequence of 200 or more characters, which no   *)
(* string of the model reaches.                                            *)

\* The blocks a[i+1..i+k] = b[j+1..j+k] inside a[alo+1..ahi], b[blo+1..bhi].
CommonBlocks(a, b, alo, ahi, blo, bhi) ==
    {m \in (alo..(ahi - 1)) \X (blo..(bhi - 1)) \X (1..(ahi - alo)) :
        /\ m[1] + m[3] <= ahi
        /\ m[2] + m[3] <= bhi
        /\ \A t \in 1..m[3] : a[m[1] + t] = b[m[2] + t]}

\* find_longest_match: a longest block; of those the earliest in a; of
\* those the earliest in b.  <<alo, blo, 0>> when nothing matches.
LongestEarliest(blocks, alo, blo) ==
    IF blocks = {} THEN <<alo, blo, 0>>
    ELSE CHOOSE m \in blocks :
            \A o \in blocks :
                \/ o[3] < m[3]
                \/ o[3] = m[3] /\ m[1] < o[1]
                \/ o[3] = m[3] /\ m[1] = o[1] /\ m[2] <= o[2]

FindLongestMatch(a, b, alo, ahi, blo, bhi) ==
    LongestEarliest(CommonBlocks(a, b, alo, ahi, blo, bhi), alo, blo)

\* get_matching_blocks: the longest match, then the same to its left and
\* to its right; the total matched length.
RECURSIVE MatchedLength(_, _, _, _, _, _)
MatchedAround(a, b, alo, ahi, blo, bhi, m) ==
    IF m[3] = 0 THEN 0
    ELSE m[3]
         + MatchedLength(a, b, alo, m[1], blo, m[2])
         + MatchedLength(a, b, m[1] + m[3], ahi, m[2] + m[3], bhi)

MatchedLength(a, b, alo, ahi, blo, bhi) ==
    MatchedAround(a, b, alo, ahi, blo, bhi,
                  FindLongestMatch(a, b, alo, ahi, blo, bhi))

\* ratio(): 2.0 * matches / length, and 1.0 when both strings are empty.
Ratio(a, b) ==
    LET length == Len(a) + Len(b)
    IN  IF length = 0 THEN One
        ELSE Rat(2 * MatchedLength(a, b, 0, Len(a), 0, Len(b)), length)

\* _calculate_similarity lower-cases both texts.
CalculateSimilarity(text1, text2) == Ratio(Lower(text1), Lower(text2))

---------------------------------------------------------------------------
(* The combined score of _find_best_match and _get_relevant_context *)

\* The keyword list, in the order the code lists it.
keywords ==
    << <<"e","v","a">>, <<"c","a","m">>, <<"p","h","i","l">>,
       <<"e","l","i","g","i","b","i","l","i","t","y">>,
       <<"c","l","a","i","m","s">>, <<"p","a","y","m","e","n","t">>,
       <<"v","e","r","i","f","i","c","a","t","i","o","n">>,
       <<"p","r","o","c","e","s","s","i","n","g">>,
       <<"p","o","s","t","i","n","g">>, <<"a","g","e","n","t","s">>,
       <<"b","e","n","e","f","i","t","s">> ,
       <<"t","h","o","u","g","h","t","f","u","l">> >>

\* keyword_boost += 0.15 for each keyword
KeywordBoostStep == <<15, 100>>

\* KeywordBoost counting one shared keyword at most.
KeywordBoostOnce(user_question_lower, question, n) ==
    IF \E k \in 1..n : /\ Contains(user_question_lower, keywords[k])
                       /\ Contains(Lower(question), keywords[k])
    THEN KeywordBoostStep
    ELSE Zero

\* The loop over keywords: the boost after the first n keywords.
RECURSIVE KeywordBoost(_, _, _)
KeywordBoost(user_question_lower, question, n) ==
    IF n = 0 THEN Zero
    ELSE LET before == KeywordBoost(user_question_lower, question, n - 1)
         IN  IF /\ Contains(user_question_lower, keywords[n])
                /\ Contains(Lower(question), keywords[n])
             THEN RatAdd(before, KeywordBoostStep)
             ELSE before

\* total_score = min(score + keyword_boost, 1.0)
TotalScore(user_question, question) ==
    LET user_question_lower == Lower(user_question)
        score == CalculateSimilarity(user_question_lower, question)
        keyword_boost == KeywordBoost(user_question_lower, question, Len(keywords))
    IN  RatMin(RatAdd(score, keyword_boost), One)

---------------------------------------------------------------------------
(* JSON values and dicts *)

\* dict.get(key, default)
Get(d, key, default) == IF key \in DOMAIN d THEN d[key] ELSE default

JsonList(items) == [type |-> "list", items |-> items]

JsonNull == [type |-> "null", items |-> <<>>]

JsonNumber == [type |-> "number", items |-> <<>>]

\* A list item that is a dict: its keys are a subset of question, answer.
Dict(d) == [type |-> "dict", dict |-> d]

\* A list item that is no dict (a number).
NotADict == [type |-> "number", dict |-> [n |-> 1]]

\* Python truthiness of the loaded value: [], None are falsy; a non-empty
\* list and a non-zero number are truthy.
TruthyData(v) ==
    CASE v.type = "list" -> v.items # <<>>
      [] v.type = "null" -> FALSE
      [] OTHER -> TRUE

---------------------------------------------------------------------------
(* The inputs of the model *)

\* The longest knowledge list of the model.
MaxStore == 4

\* The longest knowledge list where termination is checked.
LiveMaxStore == 1

Q_Eva == <<"E","v","a","?">>

Q_eva == <<"e","v","a">>

Q_evacam == <<"e","v","a"," ","c","a","m">>

Q_cameva == <<"c","a","m"," ","e","v","a">>

Q_abc == <<"a","b","c">>

Q_a == <<"a">>

Q_long ==
    <<"a","b","c","y","y","y","y","y","y","y","y","y","y","y","y","y","y">>

A1 == <<"A","1">>

A2 == <<"A","2">>

A4 == <<"A","4">>

\* The dicts a knowledge list is made of; one has no answer key.
Items ==
    { Dict([question |-> Q_eva, answer |-> A1]),
      Dict([question |-> Q_Eva, answer |-> A2]),
      Dict([question |-> Q_cameva]),
      Dict([question |-> Q_long, answer |-> A4]) }

Stores == UNION {[1..k -> Items] : k \in 0..MaxStore}

File(kind, top, has_questions, questions) ==
    [kind |-> kind, top |-> top, has_questions |-> has_questions,
     questions |-> questions]

MissingFile == File("missing", "none", FALSE, JsonNull)

InvalidJsonFile == File("invalid_json", "none", FALSE, JsonNull)

\* Valid JSON whose structure is not that of a knowledge file.
MalformedFiles ==
    { File("json", "array", FALSE, JsonNull),
      File("json", "object", FALSE, JsonNull),
      File("json", "object", TRUE, JsonNull),
      File("json", "object", TRUE, JsonNumber),
      File("json", "object", TRUE, JsonList(<<NotADict>>)) }

KnowledgeFiles == {File("json", "object", TRUE, JsonList(st)) : st \in Stores}

DataFiles == {MissingFile, InvalidJsonFile} \cup MalformedFiles \cup KnowledgeFiles

\* OPENAI_API_KEY unset or empty, or set with each outcome of OpenAI(...).
Environments ==
    {[api_key |-> FALSE, init |-> "ok"]} \cup
    {[api_key |-> TRUE, init |-> o] :
        o \in {"ok", "type_error_proxies", "type_error_proxies_import_fails",
               "type_error_other", "exception"}}

\* The questions a caller asks: None, blank ones and others.
Queries ==
    {None, <<>>, <<" ", "\t">>, Q_Eva, Q_evacam, Q_cameva, Q_a, Q_abc}

\* The thresholds _find_best_match is called with.
Thresholds == {Zero, Half, One}

GeneratedText == <<"generated text">>

\* What chat.completions.create returns: a choice with content, a choice
\* whose content is None, no choice at all.
Responses ==
    { [choices |-> <<[content |-> GeneratedText]>>],
      [choices |-> <<[content |-> None]>>],
      [choices |-> <<>>] }

\* What chat.completions.create raises.
ServiceErrors == {"APIConnectionError", "APITimeoutError"}

\* The combined score of every question asked against every stored
\* question, computed once.
Scores ==
    [user_question \in Queries \ {None},
     question \in {Get(i.dict, "question", <<>>) : i \in Items}
        |-> TotalScore(user_question, question)]

---------------------------------------------------------------------------
(* _find_best_match *)

Returned(v) == [raised |-> FALSE, value |-> v]

Raised == [raised |-> TRUE, value |-> None]

\* BestMatchUpdate replacing the best match by one of equal score.
BestMatchUpdateLastWins(before, answer, total_score) ==
    IF RatLeq(before.value[2], total_score)
    THEN Returned(<<answer, total_score>>)
    ELSE before

\* if total_score > best_score: best_score, best_match = total_score, answer
BestMatchUpdate(before, answer, total_score) ==
    IF RatLess(before.value[2], total_score)
    THEN Returned(<<answer, total_score>>)
    ELSE before

\* One iteration of the loop of _find_best_match, on item qa; Raised when
\* the item has no get method.
BestMatchStep(before, qa, user_question) ==
    IF before.raised \/ qa.type # "dict" THEN Raised
    ELSE BestMatchUpdate(before, Get(qa.dict, "answer", <<>>),
                         Scores[user_question, Get(qa.dict, "question", <<>>)])

\* The loop of _find_best_match over the first n items: <<best_match,
\* best_score>>, or Raised.
RECURSIVE BestMatchLoop(_, _, _)
BestMatchLoop(items, user_question, n) ==
    IF n = 0 THEN Returned(<<None, Zero>>)
    ELSE BestMatchStep(BestMatchLoop(items, user_question, n - 1), items[n],
                       user_question)

\* if best_score >= threshold: return best_match, best_score; return None, 0
AboveThreshold(best_found, threshold) ==
    IF best_found.raised THEN Raised
    ELSE IF RatLeq(threshold, best_found.value[2]) THEN best_found
    ELSE Returned(<<None, Zero>>)

FindBestMatch(data, user_question, threshold) ==
    IF ~TruthyData(data) THEN Returned(<<None, Zero>>)
    ELSE IF data.type # "list" THEN Raised
    ELSE AboveThreshold(BestMatchLoop(data.items, user_question, Len(data.items)),
                        threshold)

---------------------------------------------------------------------------
(* _get_relevant_context *)

\* ContextThreshold raised to the threshold of the best-match lookup.
ContextThresholdAtMatch == <<1, 2>>

\* if total_score > 0.3
ContextThreshold == <<3, 10>>

\* matches[:3]
TopMatches == 3

\* if total_score > 0.3: matches.append(...)
MatchesUpdate(before, question, answer, total_score) ==
    IF RatLess(ContextThreshold, total_score)
    THEN Returned(Append(before.value, <<question, answer, total_score>>))
    ELSE before

\* One iteration of the loop of _get_relevant_context, on item qa.
MatchesStep(before, qa, user_question) ==
    IF before.raised \/ qa.type # "dict" THEN Raised
    ELSE MatchesUpdate(before, Get(qa.dict, "question", <<>>),
                       Get(qa.dict, "answer", <<>>),
                       Scores[user_question, Get(qa.dict, "question", <<>>)])

\* The loop of _get_relevant_context over the first n items: the list of
\* matches <<question, answer, score>>, or Raised.
RECURSIVE MatchesLoop(_, _, _)
MatchesLoop(items, user_question, n) ==
    IF n = 0 THEN Returned(<<>>)
    ELSE MatchesStep(MatchesLoop(items, user_question, n - 1), items[n],
                     user_question)

InsertAt(sorted, m, k) ==
    SubSeq(sorted, 1, k) \o <<m>> \o SubSeq(sorted, k + 1, Len(sorted))

\* InsertAt after the elements of higher score only.
InsertByScoreUnstable(sorted, m) ==
    InsertAt(sorted, m,
             Cardinality({i \in 1..Len(sorted) : RatLess(m[3], sorted[i][3])}))

\* Where a stable descending sort puts m in an already sorted list: after
\* every element whose score is not lower.
InsertByScore(sorted, m) ==
    InsertAt(sorted, m,
             Cardinality({i \in 1..Len(sorted) : RatLeq(m[3], sorted[i][3])}))

\* matches.sort(key=score, reverse=True): stable, descending.
RECURSIVE SortByScore(_, _)
SortByScore(matches, n) ==
    IF n = 0 THEN <<>>
    ELSE InsertByScore(SortByScore(matches, n - 1), matches[n])

ContextHeader == <<"Here is relevant information from our knowledge base:">>

\* The context string: the header, then "i. Q: question / A: answer" for
\* each match, numbered from 1.
FormatContext(top_matches) ==
    <<ContextHeader>> \o
    [i \in 1..Len(top_matches) |-> <<i, top_matches[i][1], top_matches[i][2]>>]

\* matches[:3]
Top(sorted) ==
    SubSeq(sorted, 1, IF Len(sorted) < TopMatches THEN Len(sorted) ELSE TopMatches)

\* if not top_matches: return None; else the formatted context
ContextOrNone(top_matches) ==
    IF top_matches = <<>> THEN Returned(None)
    ELSE Returned(FormatContext(top_matches))

SortedTop(found) ==
    IF found.raised THEN Raised
    ELSE ContextOrNone(Top(SortByScore(found.value, Len(found.value))))

GetRelevantContext(data, user_question) ==
    IF ~TruthyData(data) THEN Returned(None)
    ELSE IF data.type # "list" THEN Raised
    ELSE SortedTop(MatchesLoop(data.items, user_question, Len(data.items)))

---------------------------------------------------------------------------
(* __init__: _load_data and _initialize_openai *)

EmptyList == JsonList(<<>>)

\* _load_data: [] for a missing file or invalid JSON; otherwise
\* data.get('questions', []), which raises AttributeError when the top
\* level of the document is no object.
LoadData(file) ==
    CASE file.kind = "missing" -> Returned(EmptyList)
      [] file.kind = "invalid_json" -> Returned(EmptyList)
      [] OTHER ->
            IF file.top # "object" THEN Raised
            ELSE IF file.has_questions THEN Returned(file.questions)
            ELSE Returned(EmptyList)

\* _initialize_openai: the client, the legacy module, or None.
InitializeOpenai(env) ==
    IF ~env.api_key THEN "None"
    ELSE CASE env.init = "ok" -> "OpenAI"
           [] env.init = "type_error_proxies" -> "openai_module"
           [] env.init = "type_error_proxies_import_fails" -> "None"
           [] env.init = "type_error_other" -> "None"
           [] OTHER -> "None"

---------------------------------------------------------------------------
(* _get_llm_response and get_response *)

ValidationMessage == <<"Please ask me a question about Thoughtful AI's agents!">>

ApiKeyMessage ==
    <<"I apologize, but I need an OpenAI API key to provide intelligent responses. Please set the OPENAI_API_KEY environment variable.">>

TroubleMessage ==
    <<"I'm having trouble processing your question right now. Please try asking about Thoughtful AI's agents (EVA, CAM, or PHIL).">>

\* threshold=0.5
MatchThreshold == Half

\* IsBlank without the strip() test.
IsBlankNoStrip(user_question) ==
    \/ user_question = None
    \/ user_question = <<>>

\* `not user_question or not user_question.strip()`
IsBlank(user_question) ==
    \/ user_question = None
    \/ user_question = <<>>
    \/ Strip(user_question) = <<>>

\* if answer: return answer; else the fixed message
AnswerOrMessage(found, message) ==
    IF found.raised THEN Raised
    ELSE IF Truthy(found.value[1]) THEN Returned(found.value[1])
    ELSE Returned(message)

\* The fallback of _get_llm_response: the best match's answer if it is
\* truthy, else the given fixed message.
DirectMatch(data, user_question, message) ==
    AnswerOrMessage(FindBestMatch(data, user_question, MatchThreshold), message)

\* _get_llm_response without a client.
LlmWithoutClient(data, user_question, context_arg) ==
    DirectMatch(data, user_question, ApiKeyMessage)

\* _get_llm_response when the request failed: the except branch.
LlmOnFailure(data, user_question, context_arg) ==
    DirectMatch(data, user_question, TroubleMessage)

\* Classified with the provenance taken from the answer as well.
ClassifiedByAnswer(answer, context_arg) ==
    LET is_about_agents == context_arg # None /\ Truthy(answer)
    IN  [answer |-> answer,
         source |-> IF is_about_agents THEN "ai_agent" ELSE "ai_general",
         confidence |-> IF is_about_agents THEN One ELSE Half]

\* The dict get_response returns after composing the answer.
Classified(answer, context_arg) ==
    LET is_about_agents == context_arg # None
    IN  [answer |-> answer,
         source |-> IF is_about_agents THEN "ai_agent" ELSE "ai_general",
         confidence |-> IF is_about_agents THEN One ELSE Half]

ValidationResult ==
    [answer |-> ValidationMessage, source |-> "validation", confidence |-> Zero]

NoResult == [answer |-> None, source |-> "none", confidence |-> Zero]

\* What one call of get_response did: the lookups and requests it made and
\* the exception its request ended with.
NoCalls == [context |-> 0, best_match |-> 0, request |-> 0, failure |-> "none"]

---------------------------------------------------------------------------
(* The state machine *)

Init ==
    /\ data_file \in DataFiles
    /\ qa_data = EmptyList
    /\ openai_client = "None"
    /\ pc = "new"
    /\ query = None
    /\ context = None
    /\ result = NoResult
    /\ calls = NoCalls
    /\ match_threshold = MatchThreshold
    /\ match = <<None, Zero>>

\* __init__ after _load_data: its exception ends construction; otherwise
\* the client is initialised.
Constructed(loaded, env) ==
    IF loaded.raised
    THEN /\ pc' = "aborted"
         /\ UNCHANGED <<qa_data, openai_client>>
    ELSE /\ pc' = "idle"
         /\ qa_data' = loaded.value
         /\ openai_client' = InitializeOpenai(env)

\* ThoughtfulAIAgent(data_path)
Construct ==
    /\ pc = "new"
    /\ \E env \in Environments : Constructed(LoadData(data_file), env)
    /\ UNCHANGED <<data_file, query, context, result, calls, match_threshold,
                   match>>

\* The return of get_response with the composed answer, or the exception
\* that composing it raised.
Return(answer, context_arg) ==
    IF answer.raised
    THEN result' = NoResult /\ pc' = "raised"
    ELSE result' = Classified(answer.value, context_arg) /\ pc' = "returned"

\* get_response after _get_relevant_context: _get_llm_response up to its
\* return without a client, up to its request with one.
Compose(user_question, found) ==
    IF found.raised
    THEN /\ result' = NoResult
         /\ context' = None
         /\ calls' = [NoCalls EXCEPT !.context = 1]
         /\ pc' = "raised"
    ELSE IF openai_client = "None"
    THEN /\ context' = found.value
         /\ calls' = [NoCalls EXCEPT !.context = 1, !.best_match = 1]
         /\ Return(LlmWithoutClient(qa_data, user_question, found.value),
                   found.value)
    ELSE /\ context' = found.value
         /\ calls' = [NoCalls EXCEPT !.context = 1, !.request = 1]
         /\ result' = NoResult
         /\ pc' = "waiting"

\* get_response(user_question) up to its return, its exception or the
\* request to the generation service.
GetResponse(user_question) ==
    /\ pc \in {"idle", "returned", "raised"}
    /\ query' = user_question
    /\ IF IsBlank(user_question)
       THEN /\ result' = ValidationResult
            /\ context' = None
            /\ calls' = NoCalls
            /\ pc' = "returned"
       ELSE Compose(user_question, GetRelevantContext(qa_data, user_question))
    /\ UNCHANGED <<data_file, qa_data, openai_client, match_threshold, match>>

\* The except branch of _get_llm_response, then the return of get_response.
Fallback(error) ==
    /\ calls' = [calls EXCEPT !.best_match = @ + 1, !.failure = error]
    /\ Return(LlmOnFailure(qa_data, query, context), context)

\* chat.completions.create returns `response`; the answer is
\* response.choices[0].message.content, an IndexError when there is no choice.
ServiceReturns(response) ==
    /\ pc = "waiting"
    /\ IF response.choices = <<>>
       THEN Fallback("IndexError")
       ELSE /\ result' = Classified(response.choices[1].content, context)
            /\ pc' = "returned"
            /\ UNCHANGED calls
    /\ UNCHANGED <<data_file, qa_data, openai_client, query, context,
                   match_threshold, match>>

\* ServiceRaises issuing the request again instead of falling back.
ServiceRaisesAndRetries(error) ==
    /\ pc = "waiting"
    /\ calls' = [calls EXCEPT !.failure = error]
    /\ UNCHANGED <<data_file, qa_data, openai_client, pc, query, context,
                   result, match_threshold, match>>

\* chat.completions.create raises.
ServiceRaises(error) ==
    /\ pc = "waiting"
    /\ Fallback(error)
    /\ UNCHANGED <<data_file, qa_data, openai_client, query, context,
                   match_threshold, match>>

Next ==
    \/ Construct
    \/ \E user_question \in Queries : GetResponse(user_question)
    \/ \E response \in Responses : ServiceReturns(response)
    \/ \E error \in ServiceErrors : ServiceRaises(error)

Spec == Init /\ [][Next]_vars

\* The return of _find_best_match, or the exception it raised.
Matched(found) ==
    IF found.raised
    THEN match' = <<None, Zero>> /\ pc' = "raised"
    ELSE match' = found.value /\ pc' = "matched"

\* _find_best_match(user_question, threshold_arg) called on the agent.
FindBestMatchCall(user_question, threshold_arg) ==
    /\ pc \in {"idle", "matched", "raised"}
    /\ query' = user_question
    /\ match_threshold' = threshold_arg
    /\ Matched(FindBestMatch(qa_data, user_question, threshold_arg))
    /\ UNCHANGED <<data_file, qa_data, openai_client, context, result, calls>>

MatchNext ==
    \/ Construct
    \/ \E user_question \in Queries \ {None}, threshold_arg \in Thresholds :
          FindBestMatchCall(user_question, threshold_arg)

\* The agent with _find_best_match called on it directly.
MatchSpec == Init /\ [][MatchNext]_vars

\* The request of one call is ended by the client's timeout when nothing
\* else ends it: the client of line 100 is built with its default, finite
\* request timeout.
LiveInit ==
    /\ data_file \in {f \in DataFiles : Len(f.questions.items) <= LiveMaxStore}
    /\ qa_data = EmptyList
    /\ openai_client = "None"
    /\ pc = "new"
    /\ query = None
    /\ context = None
    /\ result = NoResult
    /\ calls = NoCalls
    /\ match_threshold = MatchThreshold
    /\ match = <<None, Zero>>

LiveSpec ==
    /\ LiveInit
    /\ [][Next]_vars
    /\ WF_vars(ServiceRaises("APITimeoutError"))

---------------------------------------------------------------------------
(* What the properties below speak about *)

\* The loaded value is a list of dicts.
WellFormedStore ==
    /\ qa_data.type = "list"
    /\ \A i \in 1..Len(qa_data.items) : qa_data.items[i].type = "dict"

\* A string with a character that is no whitespace.
NonBlank(q) == q # None /\ \E i \in 1..Len(q) : q[i] \notin {" ", "\t", "\n"}

Entries == 1..Len(qa_data.items)

QuestionOf(i) == Get(qa_data.items[i].dict, "question", <<>>)

AnswerOf(i) == Get(qa_data.items[i].dict, "answer", <<>>)

\* The combined score of entry i for the question asked.
ScoreOf(i) == Scores[query, QuestionOf(i)]

SomeEntryAbove(threshold) == \E i \in Entries : RatLess(threshold, ScoreOf(i))

---------------------------------------------------------------------------
(* C1 *)

\* C1: a call with a None, empty or whitespace-only question returns the
\* validation result and nothing else happens on it: no context retrieval,
\* no best-match lookup, no request, no exception; whatever was loaded and
\* whichever client is configured.
C1_BlankIsValidation ==
    (pc \in {"waiting", "returned", "raised"} /\ ~NonBlank(query)) =>
        /\ pc = "returned"
        /\ result = [answer |-> ValidationMessage, source |-> "validation",
                     confidence |-> Zero]
        /\ calls = [context |-> 0, best_match |-> 0, request |-> 0,
                    failure |-> "none"]

\* A whitespace-only question was answered with a client configured and a
\* non-empty knowledge list.
C1_Witness ==
    /\ pc = "returned"
    /\ query = <<" ", "\t">>
    /\ openai_client = "OpenAI"
    /\ qa_data.items # <<>>
    /\ result.source = "validation"

---------------------------------------------------------------------------
(* C2 *)

\* C2: for a non-blank question the returned source and confidence depend
\* on the question and the knowledge list only: ai_agent and 1.0 exactly
\* when some entry scores above 0.3, else ai_general and 0.5; with no
\* client, after a reply and after a failure with fallback alike.
C2_SourceFromContext ==
    (pc = "returned" /\ NonBlank(query)) =>
        LET about == SomeEntryAbove(<<3, 10>>)
        IN  /\ result.source = (IF about THEN "ai_agent" ELSE "ai_general")
            /\ result.confidence = (IF about THEN One ELSE Half)

\* The request failed, the fallback found a stored answer, and the call is
\* classified ai_agent.
C2_Witness ==
    /\ pc = "returned"
    /\ openai_client # "None"
    /\ calls.best_match = 1
    /\ result.answer = A1
    /\ result.source = "ai_agent"
    /\ result.confidence = One

---------------------------------------------------------------------------
(* C3 *)

\* C3: every call on a list of dicts returns a result whose answer is a
\* string, whose source is validation, ai_agent or ai_general and whose
\* confidence lies in [0, 1]; no exception escapes.
C3_WellFormedResult ==
    (pc \in {"returned", "raised"} /\ WellFormedStore) =>
        /\ pc = "returned"
        /\ result.answer # None
        /\ result.source \in {"validation", "ai_agent", "ai_general"}
        /\ RatLeq(Zero, result.confidence)
        /\ RatLeq(result.confidence, One)

---------------------------------------------------------------------------
(* C4 *)

\* C4: without a client no request is issued, and the answer is that of
\* _find_best_match(query, 0.5) whenever its best score is at least 0.5,
\* and the fixed API-key message only otherwise.
C4_NoClientAnswer ==
    (pc = "returned" /\ openai_client = "None" /\ NonBlank(query)) =>
        LET found == FindBestMatch(qa_data, query, Half).value
        IN  /\ calls.request = 0
            /\ RatLeq(Half, found[2]) => result.answer = found[1]
            /\ ~RatLeq(Half, found[2]) => result.answer = ApiKeyMessage

---------------------------------------------------------------------------
(* C5 *)

\* C5: with a client every call on a non-blank question issues exactly one
\* request; when that request fails, the answer is that of
\* _find_best_match(query, 0.5) if its best score is at least 0.5 and the
\* fixed trouble message otherwise, which is not the API-key message.
C5_FailureAnswer ==
    (pc \in {"waiting", "returned"} /\ openai_client # "None" /\ NonBlank(query)) =>
        /\ calls.request = 1
        /\ TroubleMessage # ApiKeyMessage
        /\ (pc = "returned" /\ calls.best_match > 0) =>
              LET found == FindBestMatch(qa_data, query, Half).value
              IN  /\ calls.best_match = 1
                  /\ RatLeq(Half, found[2]) => result.answer = found[1]
                  /\ ~RatLeq(Half, found[2]) => result.answer = TroubleMessage

---------------------------------------------------------------------------
(* C6 *)

---------------------------------------------------------------------------
(* C7 *)

\* C7: with a knowledge file that is missing, no valid JSON or of malformed
\* structure, construction does not abort, the agent holds an empty list,
\* both lookups find nothing for every question and every call on a
\* non-blank question returns ai_general with confidence 0.5.
C7_DegradedLoad ==
    (data_file \in {MissingFile, InvalidJsonFile} \cup MalformedFiles) =>
        /\ pc # "aborted"
        /\ pc # "raised"
        /\ pc # "new" =>
              \A q \in Queries \ {None} :
                  /\ FindBestMatch(qa_data, q, Half) = Returned(<<None, Zero>>)
                  /\ GetRelevantContext(qa_data, q) = Returned(None)
        /\ (pc = "returned" /\ NonBlank(query)) =>
              result.source = "ai_general" /\ result.confidence = Half

---------------------------------------------------------------------------
(* C8 *)

\* C8: the context holds at most 3 entries, each scoring above 0.3, in
\* non-increasing score order and numbered from 1, entries of equal score
\* in list order; no entry left out scores higher than one included; and
\* the context is None exactly when no entry scores above 0.3.
C8_ContextShape ==
    (pc \in {"waiting", "returned"} /\ NonBlank(query)) =>
        LET above == {i \in Entries : RatLess(<<3, 10>>, ScoreOf(i))}
            n == Len(context) - 1
        IN  /\ context = None <=> above = {}
            /\ context # None =>
                /\ context[1] = ContextHeader
                /\ n \in 1..3
                /\ \E idx \in [1..n -> above] :
                    /\ \A k \in 1..n :
                          context[k + 1] = <<k, QuestionOf(idx[k]), AnswerOf(idx[k])>>
                    /\ \A k, l \in 1..n : k < l =>
                          /\ idx[k] # idx[l]
                          /\ RatLeq(ScoreOf(idx[l]), ScoreOf(idx[k]))
                          /\ ScoreOf(idx[l]) = ScoreOf(idx[k]) => idx[k] < idx[l]
                    /\ \A j \in Entries \ {idx[k] : k \in 1..n} :
                          \A k \in 1..n : RatLeq(ScoreOf(j), ScoreOf(idx[k]))

\* Three of four entries above 0.3 were taken: two of equal score with
\* different answers, then a lower one, and one was left out.
C8_Witness ==
    /\ pc = "returned"
    /\ NonBlank(query)
    /\ Len(qa_data.items) = 4
    /\ Cardinality({i \in Entries : RatLess(<<3, 10>>, ScoreOf(i))}) = 4
    /\ Len(context) = 4
    /\ context[2][3] = A1
    /\ context[3][3] = A2
    /\ context[4][3] = <<>>

---------------------------------------------------------------------------
(* C9 *)

---------------------------------------------------------------------------
(* C10 *)

\* min(ratio + 0.15 * number of shared keywords, 1.0)
CombinedScore(q, question) ==
    LET shared == {k \in 1..Len(keywords) :
                      /\ Contains(Lower(q), keywords[k])
                      /\ Contains(Lower(question), keywords[k])}
        sum == RatAdd(Ratio(Lower(q), Lower(question)),
                      Rat(15 * Cardinality(shared), 100))
    IN  IF RatLess(One, sum) THEN One ELSE sum

CombinedScores ==
    [q \in Queries \ {None},
     question \in {Get(i.dict, "question", <<>>) : i \in Items}
        |-> CombinedScore(q, question)]

\* The first entry in list order whose combined score is the maximum.
FirstMaximum ==
    CHOOSE i \in Entries :
        /\ \A j \in Entries :
              RatLeq(CombinedScores[query, QuestionOf(j)],
                     CombinedScores[query, QuestionOf(i)])
        /\ \A j \in 1..(i - 1) :
              RatLess(CombinedScores[query, QuestionOf(j)],
                      CombinedScores[query, QuestionOf(i)])

---------------------------------------------------------------------------
(* C11 *)

\* _find_best_match(q, 0.5) returns a match other than None on the loaded
\* knowledge list.
YieldsAnswer(found) == ~found.raised /\ found.value[1] # None

\* _get_relevant_context(q) returns a context other than None.
HasContext(found) == ~found.raised /\ found.value # None

\* C11: on every loaded knowledge list and for every non-blank question,
\* whenever _find_best_match(question, 0.5) yields a match,
\* _get_relevant_context(question) is not None; hence a returned ai_general
\* result has confidence 0.5 and carries the fixed API-key message when
\* there is no client and the fixed trouble message after a failed request,
\* never an answer of the knowledge list.
C11_NoStoredAnswerAsGeneral ==
    /\ pc \in {"idle", "waiting", "returned", "raised"} =>
           \A q \in {x \in Queries : NonBlank(x)} :
               YieldsAnswer(FindBestMatch(qa_data, q, MatchThreshold)) =>
                   HasContext(GetRelevantContext(qa_data, q))
    /\ (pc = "returned" /\ NonBlank(query) /\ result.source = "ai_general") =>
           /\ result.confidence = Half
           /\ context = None
           /\ ~YieldsAnswer(FindBestMatch(qa_data, query, MatchThreshold))
           /\ openai_client = "None" => result.answer = ApiKeyMessage
           /\ calls.failure # "none" => result.answer = TroubleMessage

\* The lookup of the fallback found an entry scoring exactly 0.5 after a
\* failed request, and the call returned its answer as ai_agent.
C11_Witness ==
    /\ pc = "returned"
    /\ calls.failure # "none"
    /\ query = Q_a
    /\ FindBestMatch(qa_data, query, MatchThreshold) = Returned(<<A1, Half>>)
    /\ context # None
    /\ result = [answer |-> A1, source |-> "ai_agent", confidence |-> One]

===========================================================================
